---- MODULE Spec2Model ----
(***************************************************************************)
(* tinylink: a URL shortener.  One SQLite table `links` is shared by two   *)
(* code paths: the HTTP surface (app/routers/*.py over app/db.py) and the  *)
(* LinkService (app/services/link_service.py over                          *)
(* app/repositories/sqlite.py).  Every SQL transaction is one atomic step; *)
(* a handler that issues several transactions is several steps, so that    *)
(* concurrent requests interleave between them.                            *)
(***************************************************************************)
EXTENDS Integers, Sequences, FiniteSets, TLC

\* ------------------------------------------------------------------ bounds
MaxTime == 2
MaxRequests == 3
MaxSeqRequests == 3

\* ------------------------------------------------------- program constants
LENGTH == 6
MaxTries == 5
MaxUrlLen == 500

\* The alphabet of codes.py has 62 characters; one of them is kept, so that
\* candidates collide as soon as one link is stored.
ALPHABET == {"a"}

\* The concurrent request handlers (worker threads of the server).
Procs == {1, 2}

\* ------------------------------------------------------------- timestamps
\* A timestamp value is a record [kind, t]: SQL NULL / None ("null"), ISO-8601
\* text ("iso"), text that does not parse ("bad"), a datetime object ("dt"),
\* the no-change sentinel ("nochange") or a raised parse error ("raise").
NULL == [kind |-> "null", t |-> 0]
BadText == [kind |-> "bad", t |-> 0]
NOCHANGE == [kind |-> "nochange", t |-> 0]
ParseFail == [kind |-> "raise", t |-> 0]
IsoText(t) == [kind |-> "iso", t |-> t]
Dt(t) == [kind |-> "dt", t |-> t]

\* datetime.isoformat()
Isoformat(d) == [kind |-> "iso", t |-> d.t]

\* datetime.fromisoformat(text); a naive result is taken as UTC by the callers
FromIsoformat(x) == IF x.kind = "iso" THEN Dt(x.t) ELSE ParseFail

\* pydantic's Optional[datetime] field: null stays None, ISO text becomes a
\* datetime, anything else is a RequestValidationError
PydanticDatetime(x) ==
    CASE x.kind = "null" -> NULL
      [] x.kind = "iso" -> Dt(x.t)
      [] OTHER -> ParseFail

\* parse_dt of _to_link_out, _parse_iso of LinkService: None when absent or
\* unparsable
ParseDt(x) ==
    IF x.kind \in {"null"} THEN NULL
    ELSE IF FromIsoformat(x).kind = "raise" THEN NULL ELSE FromIsoformat(x)

Truthy(x) == x.kind # "null"

\* The expiry values a client sends with a create: none, text that is no
\* timestamp, and instant 1 (ahead of, at, or behind the clock)
ExpiryInputs == {NULL, BadText, IsoText(1)}

\* ------------------------------------------------------------------- URLs
\* A URL is [kind, scheme, rest, len]; kind "none" is Python's None and kind
\* "nochange" the sentinel of a partial update; len is the number of
\* characters.  A URL text stands for itself with or without the trailing
\* slash that str(AnyUrl) may add (norm() of the tests).
Url(s, r, n) == [kind |-> "str", scheme |-> s, rest |-> r, len |-> n]
HttpsA == Url("https://", "a.example", 17)
HttpB == Url("http://", "b.example", 16)
FtpC == Url("ftp://", "c.example", 15)
EmptyUrl == Url("", "", 0)
NotAUrl == Url("", "notaurl", 7)
LongHttps == Url("https://", "long.example", MaxUrlLen + 1)
NoneUrl == [kind |-> "none", scheme |-> "", rest |-> "", len |-> 0]
NoChangeUrl == [kind |-> "nochange", scheme |-> "", rest |-> "", len |-> 0]

CreateUrls == {HttpsA, FtpC, EmptyUrl, NotAUrl}

\* The target_url values a client posts: the same, and one past the limit of
\* create_link
PostUrls == CreateUrls \cup {LongHttps}

\* create_link: `len(str(payload.target_url)) > 500`
TooLong(u) == u.len > MaxUrlLen

\* str.startswith(("http://", "https://"))
StartsWithHttp(u) == u.kind = "str" /\ u.scheme \in {"http://", "https://"}

\* `not target_url`
Falsy(u) == u.kind = "none" \/ (u.kind = "str" /\ u.scheme = "" /\ u.rest = "")

\* pydantic's AnyUrl: any scheme is accepted, the text must have one
AnyUrlValid(u) == u.kind = "str" /\ u.scheme # ""

\* LinkService.create's guard
CreateUrlInvalid(u) == Falsy(u) \/ ~StartsWithHttp(u)

\* LinkService.update's guard for a target_url that is not None
UpdateUrlInvalid(u) == ~StartsWithHttp(u)

\* ------------------------------------------------------------------ codes
NoCode == << >>

\* generate_code(length): `length` draws from ALPHABET (the draws kept here
\* are the ones that repeat one character)
GenerateCode(length) == {[i \in 1..length |-> ch] : ch \in ALPHABET}

\* ------------------------------------------------------------------- rows
NoRow == [id |-> 0, short_code |-> NoCode, target_url |-> NoneUrl,
          created_at |-> NULL, expires_at |-> NULL, click_count |-> 0,
          last_access_at |-> NULL]

\* The same row with last_access_at starting as the creation time
NewRowAccessed(id, code, url, created, expires) ==
    [id |-> id, short_code |-> code, target_url |-> url,
     created_at |-> created, expires_at |-> expires, click_count |-> 0,
     last_access_at |-> created]

NewRow(id, code, url, created, expires) ==
    [id |-> id, short_code |-> code, target_url |-> url,
     created_at |-> created, expires_at |-> expires, click_count |-> 0,
     last_access_at |-> NULL]

\* SELECT * FROM links WHERE short_code = ? ... fetchone()
GetByCode(rows, code) ==
    IF \E r \in rows : r.short_code = code
    THEN CHOOSE r \in rows : r.short_code = code
    ELSE NoRow

\* SELECT * FROM links WHERE id = ? ... fetchone()
GetById(rows, id) ==
    IF \E r \in rows : r.id = id
    THEN CHOOSE r \in rows : r.id = id
    ELSE NoRow

\* SELECT 1 FROM links WHERE short_code = ? LIMIT 1
ExistsCode(rows, code) == \E r \in rows : r.short_code = code

\* The table without the UNIQUE constraint
UniqueNotEnforced(rows, code) == FALSE

\* short_code TEXT NOT NULL UNIQUE
UniqueViolation(rows, code) == \E r \in rows : r.short_code = code

\* target_url TEXT NOT NULL
NotNullViolation(u) == u.kind = "none"

\* The expires_at clause with None taken for "no change"
DbSetExpiresUnlessNone(old, ex) ==
    CASE ex.kind \in {"nochange", "null"} -> old
      [] ex.kind = "dt" -> Isoformat(ex)
      [] OTHER -> ex

\* update_link's SET clause: a field is written unless it is the sentinel;
\* a datetime is stored as its isoformat, None as NULL
DbSetTarget(old, tu) == IF tu.kind = "nochange" THEN old ELSE tu

DbSetExpires(old, ex) ==
    CASE ex.kind = "nochange" -> old
      [] ex.kind = "null" -> NULL
      [] ex.kind = "dt" -> Isoformat(ex)
      [] OTHER -> ex

\* The same statement also putting click_count back to its default
DbUpdateLinkResetClicks(rows, code, tu, ex) ==
    {IF r.short_code = code
     THEN [r EXCEPT !.target_url = DbSetTarget(@, tu),
                    !.expires_at = DbSetExpires(@, ex),
                    !.click_count = 0]
     ELSE r : r \in rows}

\* UPDATE links SET target_url = ?, expires_at = ? WHERE short_code = ?
DbUpdateLink(rows, code, tu, ex) ==
    {IF r.short_code = code
     THEN [r EXCEPT !.target_url = DbSetTarget(@, tu),
                    !.expires_at = DbSetExpires(@, ex)]
     ELSE r : r \in rows}

\* The same statement with its WHERE clause lost: every row is counted
IncrementClickEveryRow(rows, code) ==
    {[r EXCEPT !.click_count = @ + 1] : r \in rows}

\* UPDATE links SET click_count = click_count + 1 WHERE short_code = ?
IncrementClick(rows, code) ==
    {IF r.short_code = code THEN [r EXCEPT !.click_count = @ + 1] ELSE r
        : r \in rows}

\* The same statement writing the time to created_at as well
UpdateLastAccessAndCreated(rows, code, iso) ==
    {IF r.short_code = code
     THEN [r EXCEPT !.last_access_at = iso, !.created_at = iso] ELSE r
        : r \in rows}

\* UPDATE links SET last_access_at = ? WHERE short_code = ?
UpdateLastAccess(rows, code, iso) ==
    {IF r.short_code = code THEN [r EXCEPT !.last_access_at = iso] ELSE r
        : r \in rows}

\* The dict SqliteLinkRepository.update receives: a key that is absent holds
\* the sentinel (clicks: -1)
NoData == [target_url |-> NoChangeUrl, expires_at |-> NOCHANGE, clicks |-> -1,
           last_access_at |-> NOCHANGE]

\* `if not sets`
NoSets(data) == data = NoData

\* UPDATE links SET <the keys present> WHERE id = ?
RepoUpdate(rows, id, data) ==
    {IF r.id = id
     THEN [r EXCEPT
            !.target_url = IF data.target_url.kind = "nochange" THEN @
                           ELSE data.target_url,
            !.expires_at = IF data.expires_at.kind = "nochange" THEN @
                           ELSE data.expires_at,
            !.click_count = IF data.clicks = -1 THEN @ ELSE data.clicks,
            !.last_access_at = IF data.last_access_at.kind = "nochange" THEN @
                               ELSE data.last_access_at]
     ELSE r : r \in rows}

\* The same statement matching no row
DeleteNoRow(rows, code) == rows

\* DELETE FROM links WHERE short_code = ?
DeleteWhereCode(rows, code) == {r \in rows : r.short_code # code}

\* DELETE FROM links WHERE id = ?
DeleteWhereId(rows, id) == {r \in rows : r.id # id}

\* The orders in which a SELECT may return all of `rows`
Orderings(rows) ==
    {s \in [1..Cardinality(rows) -> rows] : \A r \in rows : \E i \in DOMAIN s : s[i] = r}

\* SELECT * FROM links ORDER BY datetime(created_at) DESC: rows whose
\* created_at is the same instant come in an order SQL leaves open
DbListLinks(rows) ==
    {s \in Orderings(rows) :
        \A i, j \in DOMAIN s : i < j => s[i].created_at.t >= s[j].created_at.t}

\* SELECT * FROM links ORDER BY id DESC LIMIT 100 OFFSET 0 (the table holds
\* fewer rows than the limit)
RepoList(rows) ==
    {s \in Orderings(rows) : \A i, j \in DOMAIN s : i < j => s[i].id > s[j].id}

\* -------------------------------------------------------------- responses
NoBody == [short_code |-> NoCode, target_url |-> NoneUrl, created_at |-> NULL,
           expires_at |-> NULL, click_count |-> 0, last_access_at |-> NULL]

\* _to_link_out (routers/links.py) and LinkService._shape: the stored
\* timestamps are parsed, click_count is copied
Shape(r) ==
    [short_code |-> r.short_code, target_url |-> r.target_url,
     created_at |-> ParseDt(r.created_at), expires_at |-> ParseDt(r.expires_at),
     click_count |-> r.click_count, last_access_at |-> ParseDt(r.last_access_at)]

\* SqliteLinkRepository._row_to_dict, as LinkService.resolve returns it: the
\* stored text, unparsed
RawBody(r) ==
    [short_code |-> r.short_code, target_url |-> r.target_url,
     created_at |-> r.created_at, expires_at |-> r.expires_at,
     click_count |-> r.click_count, last_access_at |-> r.last_access_at]

\* ----------------------------------------------------------------- expiry
\* The same test with its operands swapped
HttpExpiredSwapped(exp, t) == exp.t > t

\* redirect.py: `if now > exp`
HttpExpired(exp, t) == t > exp.t

\* The same test never finding the link expired
SvcExpiredNever(exp, t) == FALSE

\* LinkService.resolve: `if exp_dt <= datetime.now(UTC)`
SvcExpired(exp, t) == exp.t <= t

\* -------------------------------------------------------------- generator
\* The same test with the `not` lost
ReturnsCandidateIfPresent(exists) == exists

\* generate_unique_code: `if not exists_fn(c): return c`
ReturnsCandidate(exists) == ~exists

\* The same loop running one turn more
LoopOverLate(calls, max_tries) == calls > max_tries

\* generate_unique_code: `for _ in range(max_tries)` is over after this call
LoopOver(calls, max_tries) == calls >= max_tries

AllCodes == GenerateCode(LENGTH) \cup GenerateCode(LENGTH + 1)

\* ------------------------------------------------------------------ state
VARIABLES
    links,      \* the rows of table links
    next_id,    \* the AUTOINCREMENT sequence of links.id
    now,        \* the clock
    proc,       \* each handler: its position, its locals, its last response
    nreq,       \* requests started so far
    hits,       \* per link id, the resolutions that answered success
    revived     \* the ids of the links whose expires_at an update moved from
                \* before the clock to null or to after the clock

vars == <<links, next_id, now, proc, nreq, hits, revived>>

IdleProc ==
    [pc |-> "idle", op |-> "none", code |-> NoCode, tu |-> NoChangeUrl,
     ex |-> NOCHANGE, rec |-> NoRow, cand |-> NoCode, calls |-> 0,
     collisions |-> 0,
     status |-> "none", ret |-> NoBody, listed |-> << >>]

Init ==
    /\ links = {}
    /\ next_id = 1
    /\ now = 0
    /\ proc = [p \in Procs |-> IdleProc]
    /\ nreq = 0
    /\ hits = [i \in 1..(MaxRequests + MaxSeqRequests) |-> 0]
    /\ revived = {}

\* A response is delivered before anything else happens: the handler that
\* holds one (pc "done") returns to idle first.
NoneDone == \A q \in Procs : proc[q].pc # "done"

\* A request is taken by the first idle handler (the handlers are alike);
\* `alone` asks that no other request is in flight (sequential clients).
CanStart(p, alone) ==
    /\ NoneDone
    /\ proc[p].pc = "idle"
    /\ \A q \in Procs : q < p => proc[q].pc # "idle"
    /\ nreq < (IF alone THEN MaxSeqRequests ELSE MaxRequests)
    /\ alone => \A q \in Procs : proc[q].pc = "idle"

\* A request in flight is at position `at`
At(p, at) == NoneDone /\ proc[p].pc = at

\* The locals of a fresh request
Begin(op, code, tu, ex) ==
    [IdleProc EXCEPT !.op = op, !.code = code, !.tu = tu, !.ex = ex]

\* The response of a handler: what it answered, and to which request
Respond(r, status, body) ==
    [r EXCEPT !.pc = "done", !.status = status, !.ret = body]

\* The response is out: the handler is idle again
Return(p) ==
    /\ proc[p].pc = "done"
    /\ proc' = [proc EXCEPT ![p] = IdleProc]
    /\ UNCHANGED <<links, next_id, now, nreq, hits, revived>>

Tick ==
    /\ NoneDone
    /\ now < MaxTime
    /\ now' = now + 1
    /\ UNCHANGED <<links, next_id, proc, nreq, hits, revived>>

\* =================================================== the HTTP surface
\* POST /api/links (create_link): pydantic validates the body (400), a
\* target_url of more than 500 characters is refused (400), then the
\* collision-checked generation starts.
HttpCreateLink(p, alone, url, exp) ==
    /\ CanStart(p, alone)
    /\ nreq' = nreq + 1
    /\ LET b == Begin("http_create", NoCode, url, exp) IN
       proc' = [proc EXCEPT ![p] =
                  IF ~AnyUrlValid(url) \/ PydanticDatetime(exp).kind = "raise"
                     \/ TooLong(url)
                  THEN Respond(b, "validation", NoBody)
                  ELSE [b EXCEPT !.pc = "gen"]]
    /\ UNCHANGED <<links, next_id, now, hits, revived>>

\* One turn of generate_unique_code's loop: a candidate is drawn and the
\* existence predicate (db.exists_code, or repo.get_by_code(c) is not None)
\* is asked about it once; after max_tries collisions the fallback code of
\* length + 1 is drawn and returned unchecked.
GenTry(p) ==
    /\ At(p, "gen")
    /\ \E c \in GenerateCode(LENGTH), f \in GenerateCode(LENGTH + 1) :
         LET exists == ExistsCode(links, c)
             calls == proc[p].calls + 1
             next == IF proc[p].op = "http_create" THEN "http_insert"
                     ELSE "svc_insert"
         IN proc' = [proc EXCEPT ![p] =
              IF ReturnsCandidate(exists)
              THEN [@ EXCEPT !.calls = calls, !.cand = c, !.code = c,
                             !.pc = next,
                             !.collisions = @ + (IF exists THEN 1 ELSE 0)]
              ELSE IF LoopOver(calls, MaxTries)
              THEN [@ EXCEPT !.calls = calls, !.cand = c,
                             !.collisions = @ + (IF exists THEN 1 ELSE 0),
                             !.code = f, !.pc = next]
              ELSE [@ EXCEPT !.calls = calls, !.cand = c,
                             !.collisions = @ + (IF exists THEN 1 ELSE 0)]]
    /\ UNCHANGED <<links, next_id, now, nreq, hits, revived>>

\* db.insert_link, first transaction: INSERT ... ; commit.  A short_code that
\* is present violates UNIQUE: sqlite3.IntegrityError leaves the handler (500).
HttpInsertLink(p) ==
    /\ At(p, "http_insert")
    /\ LET r == proc[p]
           expires == PydanticDatetime(r.ex)
           expires_txt == IF expires.kind = "dt" THEN Isoformat(expires) ELSE NULL
       IN IF UniqueViolation(links, r.code)
          THEN /\ proc' = [proc EXCEPT ![p] = Respond(r, "error", NoBody)]
               /\ UNCHANGED <<links, next_id>>
          ELSE /\ links' = links \cup
                     {NewRow(next_id, r.code, r.tu, IsoText(now), expires_txt)}
               /\ next_id' = next_id + 1
               /\ proc' = [proc EXCEPT ![p].pc = "http_insert_select"]
    /\ UNCHANGED <<now, nreq, hits, revived>>

\* db.insert_link, after the commit: SELECT by short_code and dict(row); a row
\* deleted meanwhile makes dict(None) raise (500).
HttpInsertSelect(p) ==
    /\ At(p, "http_insert_select")
    /\ LET row == GetByCode(links, proc[p].code) IN
       proc' = [proc EXCEPT ![p] =
                  IF row = NoRow THEN Respond(@, "error", NoBody)
                  ELSE Respond([@ EXCEPT !.rec = row], "created", Shape(row))]
    /\ UNCHANGED <<links, next_id, now, nreq, hits, revived>>

\* GET /api/links/{code} (detail)
HttpDetail(p, alone, code) ==
    /\ CanStart(p, alone)
    /\ nreq' = nreq + 1
    /\ LET b == Begin("http_detail", code, NoChangeUrl, NOCHANGE)
           row == GetByCode(links, code)
       IN proc' = [proc EXCEPT ![p] =
                  IF row = NoRow THEN Respond(b, "not_found", NoBody)
                  ELSE Respond([b EXCEPT !.rec = row], "ok", Shape(row))]
    /\ UNCHANGED <<links, next_id, now, hits, revived>>

\* GET /api/links (list_all): every row of db.list_links, each shaped by
\* _to_link_out
HttpListAll(p, alone) ==
    /\ CanStart(p, alone)
    /\ nreq' = nreq + 1
    /\ \E s \in DbListLinks(links) :
         \* `listed` keeps the rows in the order they are answered
         proc' = [proc EXCEPT ![p] =
                    Respond([Begin("http_list", NoCode, NoChangeUrl, NOCHANGE)
                                EXCEPT !.listed = s], "ok", NoBody)]
    /\ UNCHANGED <<links, next_id, now, hits, revived>>

\* GET /api/links/{code}/qr (qr_png): the row is read (404 when absent) and
\* the PNG of its short URL is answered
HttpQrPng(p, alone, code) ==
    /\ CanStart(p, alone)
    /\ nreq' = nreq + 1
    /\ LET b == Begin("http_qr", code, NoChangeUrl, NOCHANGE)
           rec == GetByCode(links, code)
       IN proc' = [proc EXCEPT ![p] =
                  IF rec = NoRow THEN Respond(b, "not_found", NoBody)
                  ELSE Respond([b EXCEPT !.rec = rec], "ok",
                               [NoBody EXCEPT !.short_code = rec.short_code])]
    /\ UNCHANGED <<links, next_id, now, hits, revived>>

\* The ids of the links that were expired in `rows` and no longer are in
\* `after`, at instant t
Revived(rows, after, t) ==
    {r.id : r \in {x \in rows :
        /\ x.expires_at.kind = "iso" /\ x.expires_at.t < t
        /\ \E y \in after :
              /\ y.id = x.id
              /\ \/ y.expires_at.kind = "null"
                 \/ (y.expires_at.kind = "iso" /\ y.expires_at.t > t)}}

\* The same reading with None for a key that is absent
BodyExpiresOrNone(ex) ==
    IF ex.kind = "nochange" THEN NULL ELSE PydanticDatetime(ex)

\* update (routers/links.py): model_dump(exclude_unset=True), then
\* data.get(key, NOCHANGE): a key the client omitted is the sentinel
BodyExpires(ex) ==
    IF ex.kind = "nochange" THEN NOCHANGE ELSE PydanticDatetime(ex)

BodyTarget(tu) == tu

\* update_link: `if not sets`
NothingToSet(tu, ex) == tu.kind = "nochange" /\ ex.kind = "nochange"

\* PUT /api/links/{code} (update), up to the commit of db.update_link: the body
\* is validated (400); with both fields omitted the row is only read; else
\* one UPDATE by short_code, which matches no row (404), violates NOT NULL
\* (500) or is committed.
HttpUpdate(p, alone, code, tu, ex) ==
    /\ CanStart(p, alone)
    /\ nreq' = nreq + 1
    /\ LET b == Begin("http_update", code, tu, ex)
           target == BodyTarget(tu)
           expires == BodyExpires(ex)
           row == GetByCode(links, code)
       IN IF (tu.kind = "str" /\ ~AnyUrlValid(tu)) \/ expires.kind = "raise"
          THEN /\ proc' = [proc EXCEPT ![p] = Respond(b, "validation", NoBody)]
               /\ UNCHANGED links
          ELSE IF NothingToSet(target, expires)
          THEN /\ proc' = [proc EXCEPT ![p] =
                     IF row = NoRow THEN Respond(b, "not_found", NoBody)
                     ELSE Respond([b EXCEPT !.rec = row], "ok", Shape(row))]
               /\ UNCHANGED links
          ELSE IF ~ExistsCode(links, code)
          THEN /\ proc' = [proc EXCEPT ![p] = Respond(b, "not_found", NoBody)]
               /\ UNCHANGED links
          ELSE IF NotNullViolation(target)
          THEN /\ proc' = [proc EXCEPT ![p] = Respond(b, "error", NoBody)]
               /\ UNCHANGED links
          ELSE /\ links' = DbUpdateLink(links, code, target, expires)
               /\ proc' = [proc EXCEPT ![p] = [b EXCEPT !.pc = "http_update_select"]]
    /\ revived' = revived \cup Revived(links, links', now)
    /\ UNCHANGED <<next_id, now, hits>>

\* db.update_link after the commit: the row is selected again (None: 404)
HttpUpdateSelect(p) ==
    /\ At(p, "http_update_select")
    /\ LET row == GetByCode(links, proc[p].code) IN
       proc' = [proc EXCEPT ![p] =
                  IF row = NoRow THEN Respond(@, "not_found", NoBody)
                  ELSE Respond([@ EXCEPT !.rec = row], "ok", Shape(row))]
    /\ UNCHANGED <<links, next_id, now, nreq, hits, revived>>

\* DELETE /api/links/{code}
HttpDelete(p, alone, code) ==
    /\ CanStart(p, alone)
    /\ nreq' = nreq + 1
    /\ LET b == Begin("http_delete", code, NoChangeUrl, NOCHANGE) IN
       proc' = [proc EXCEPT ![p] =
                  IF ExistsCode(links, code) THEN Respond(b, "no_content", NoBody)
                  ELSE Respond(b, "not_found", NoBody)]
    /\ links' = DeleteWhereCode(links, code)
    /\ UNCHANGED <<next_id, now, hits, revived>>

\* GET /{code} (redirect), up to the expiry test: 404 when absent; a stored
\* expires_at that does not parse raises out of the handler (500); 410 when
\* the clock is past it.
HttpRedirect(p, alone, code) ==
    /\ CanStart(p, alone)
    /\ nreq' = nreq + 1
    /\ LET b == Begin("http_redirect", code, NoChangeUrl, NOCHANGE)
           rec == GetByCode(links, code)
           exp == FromIsoformat(rec.expires_at)
       IN proc' = [proc EXCEPT ![p] =
            IF rec = NoRow THEN Respond(b, "not_found", NoBody)
            ELSE IF Truthy(rec.expires_at) /\ exp.kind = "raise"
            THEN Respond([b EXCEPT !.rec = rec], "error", NoBody)
            ELSE IF Truthy(rec.expires_at) /\ HttpExpired(exp, now)
            THEN Respond([b EXCEPT !.rec = rec], "expired", NoBody)
            ELSE [b EXCEPT !.rec = rec, !.pc = "http_increment"]]
    /\ UNCHANGED <<links, next_id, now, hits, revived>>

\* db.increment_click(code)
HttpIncrementClick(p) ==
    /\ At(p, "http_increment")
    /\ links' = IncrementClick(links, proc[p].code)
    /\ proc' = [proc EXCEPT ![p].pc = "http_touch"]
    /\ UNCHANGED <<next_id, now, nreq, hits, revived>>

\* db.update_last_access(code, now), then the 302 to rec["target_url"]
HttpUpdateLastAccess(p) ==
    /\ At(p, "http_touch")
    /\ links' = UpdateLastAccess(links, proc[p].code, Isoformat(Dt(now)))
    /\ proc' = [proc EXCEPT ![p] =
                  Respond(@, "redirect",
                          [NoBody EXCEPT !.short_code = proc[p].code,
                                         !.target_url = proc[p].rec.target_url])]
    /\ hits' = [hits EXCEPT ![proc[p].rec.id] = @ + 1]
    /\ UNCHANGED <<next_id, now, nreq, revived>>

\* ===================================================== the LinkService
\* LinkService.create up to the generation: the scheme check (ValueError)
SvcCreate(p, alone, url, exp) ==
    /\ CanStart(p, alone)
    /\ nreq' = nreq + 1
    /\ LET b == Begin("svc_create", NoCode, url, exp) IN
       proc' = [proc EXCEPT ![p] =
                  IF CreateUrlInvalid(url) THEN Respond(b, "validation", NoBody)
                  ELSE [b EXCEPT !.pc = "gen"]]
    /\ UNCHANGED <<links, next_id, now, hits, revived>>

\* SqliteLinkRepository.create: INSERT and SELECT by id in one transaction;
\* expires_at is stored as given
SvcInsert(p) ==
    /\ At(p, "svc_insert")
    /\ LET r == proc[p]
           row == NewRow(next_id, r.code, r.tu, Isoformat(Dt(now)), r.ex)
       IN IF UniqueViolation(links, r.code)
          THEN /\ proc' = [proc EXCEPT ![p] = Respond(r, "error", NoBody)]
               /\ UNCHANGED <<links, next_id>>
          ELSE /\ links' = links \cup {row}
               /\ next_id' = next_id + 1
               /\ proc' = [proc EXCEPT ![p] =
                     Respond([r EXCEPT !.rec = row], "ok", Shape(row))]
    /\ UNCHANGED <<now, nreq, hits, revived>>

\* LinkService.get
SvcGet(p, alone, code) ==
    /\ CanStart(p, alone)
    /\ nreq' = nreq + 1
    /\ LET b == Begin("svc_get", code, NoChangeUrl, NOCHANGE)
           rec == GetByCode(links, code)
       IN proc' = [proc EXCEPT ![p] =
                  IF rec = NoRow THEN Respond(b, "not_found", NoBody)
                  ELSE Respond([b EXCEPT !.rec = rec], "ok", Shape(rec))]
    /\ UNCHANGED <<links, next_id, now, hits, revived>>

\* LinkService.list: every row of SqliteLinkRepository.list, each shaped by
\* _shape
SvcList(p, alone) ==
    /\ CanStart(p, alone)
    /\ nreq' = nreq + 1
    /\ \E s \in RepoList(links) :
         proc' = [proc EXCEPT ![p] =
                    Respond([Begin("svc_list", NoCode, NoChangeUrl, NOCHANGE)
                                EXCEPT !.listed = s], "ok", NoBody)]
    /\ UNCHANGED <<links, next_id, now, hits, revived>>

\* LinkService.update up to repo.update: the lookup (KeyError) and the scheme
\* check of a target_url that is not None (ValueError)
SvcUpdate(p, alone, code, tu, ex) ==
    /\ CanStart(p, alone)
    /\ nreq' = nreq + 1
    /\ LET b == Begin("svc_update", code, tu, ex)
           rec == GetByCode(links, code)
       IN proc' = [proc EXCEPT ![p] =
            IF rec = NoRow THEN Respond(b, "not_found", NoBody)
            ELSE IF tu.kind = "str" /\ UpdateUrlInvalid(tu)
            THEN Respond([b EXCEPT !.rec = rec], "validation", NoBody)
            ELSE [b EXCEPT !.rec = rec, !.pc = "svc_update_write"]]
    /\ UNCHANGED <<links, next_id, now, hits, revived>>

\* The update_data dict LinkService.update builds
UpdateData(tu, ex) == [NoData EXCEPT !.target_url = tu, !.expires_at = ex]

\* SqliteLinkRepository.update(rec["id"], update_data): with no key the row is
\* only read; else UPDATE and SELECT by id in one transaction.  A null
\* target_url violates NOT NULL (IntegrityError); a row that is gone makes
\* _row_to_dict(None) raise (TypeError).
SvcUpdateWrite(p) ==
    /\ At(p, "svc_update_write")
    /\ LET r == proc[p]
           data == UpdateData(r.tu, r.ex)
           after == IF NoSets(data) THEN links
                    ELSE RepoUpdate(links, r.rec.id, data)
           row == GetById(after, r.rec.id)
       IN IF ~NoSets(data) /\ GetById(links, r.rec.id) # NoRow
             /\ NotNullViolation(data.target_url)
          THEN /\ proc' = [proc EXCEPT ![p] = Respond(r, "error", NoBody)]
               /\ UNCHANGED links
          ELSE /\ links' = after
               /\ proc' = [proc EXCEPT ![p] =
                     IF row = NoRow THEN Respond(r, "error", NoBody)
                     ELSE Respond(r, "ok", Shape(row))]
    /\ revived' = revived \cup Revived(links, links', now)
    /\ UNCHANGED <<next_id, now, nreq, hits>>

\* LinkService.delete up to repo.delete: the lookup (KeyError)
SvcDelete(p, alone, code) ==
    /\ CanStart(p, alone)
    /\ nreq' = nreq + 1
    /\ LET b == Begin("svc_delete", code, NoChangeUrl, NOCHANGE)
           rec == GetByCode(links, code)
       IN proc' = [proc EXCEPT ![p] =
            IF rec = NoRow THEN Respond(b, "not_found", NoBody)
            ELSE [b EXCEPT !.rec = rec, !.pc = "svc_delete_write"]]
    /\ UNCHANGED <<links, next_id, now, hits, revived>>

\* SqliteLinkRepository.delete(rec["id"])
SvcDeleteWrite(p) ==
    /\ At(p, "svc_delete_write")
    /\ links' = DeleteWhereId(links, proc[p].rec.id)
    /\ proc' = [proc EXCEPT ![p] = Respond(@, "ok", NoBody)]
    /\ UNCHANGED <<next_id, now, nreq, hits, revived>>

\* LinkService.resolve up to repo.update: the lookup (KeyError) and the expiry
\* test; a stored expires_at that does not parse counts as expired
\* (PermissionError)
SvcResolve(p, alone, code) ==
    /\ CanStart(p, alone)
    /\ nreq' = nreq + 1
    /\ LET b == Begin("svc_resolve", code, NoChangeUrl, NOCHANGE)
           rec == GetByCode(links, code)
           exp == FromIsoformat(rec.expires_at)
       IN proc' = [proc EXCEPT ![p] =
            IF rec = NoRow THEN Respond(b, "not_found", NoBody)
            ELSE IF Truthy(rec.expires_at)
                    /\ (exp.kind = "raise" \/ SvcExpired(exp, now))
            THEN Respond([b EXCEPT !.rec = rec], "expired", NoBody)
            ELSE [b EXCEPT !.rec = rec, !.pc = "svc_resolve_write"]]
    /\ UNCHANGED <<links, next_id, now, hits, revived>>

\* The dict LinkService.resolve passes to repo.update: the clicks it read plus
\* one, and the access time
ResolveData(rec, t) ==
    [NoData EXCEPT !.clicks = rec.click_count + 1,
                   !.last_access_at = Isoformat(Dt(t))]

\* repo.update(rec["id"], {clicks, last_access_at}) and the return of the row
SvcResolveWrite(p) ==
    /\ At(p, "svc_resolve_write")
    /\ LET r == proc[p]
           after == RepoUpdate(links, r.rec.id, ResolveData(r.rec, now))
           row == GetById(after, r.rec.id)
       IN /\ links' = after
          /\ proc' = [proc EXCEPT ![p] =
                IF row = NoRow THEN Respond(r, "error", NoBody)
                ELSE Respond(r, "ok", RawBody(row))]
          /\ hits' = IF row = NoRow THEN hits
                     ELSE [hits EXCEPT ![r.rec.id] = @ + 1]
    /\ UNCHANGED <<next_id, now, nreq, revived>>

\* ========================================================= specification
\* The bodies of an update: each field omitted, null or a value; an expiry
\* that is set is the last instant of the clock or the one after it
UpdateInputs ==
    {<<NoChangeUrl, NOCHANGE>>, <<HttpB, NOCHANGE>>, <<FtpC, NOCHANGE>>,
     <<NotAUrl, NOCHANGE>>, <<NoneUrl, NOCHANGE>>, <<NoChangeUrl, NULL>>,
     <<NoChangeUrl, BadText>>, <<NoChangeUrl, IsoText(MaxTime)>>,
     <<HttpB, IsoText(MaxTime)>>, <<NoneUrl, NULL>>,
     <<NoChangeUrl, IsoText(MaxTime + 1)>>}

\* A create arrives at handler p
CreateRequest(p, alone) ==
  /\ CanStart(p, alone)
  /\
    \/ \E url \in PostUrls, exp \in ExpiryInputs : HttpCreateLink(p, alone, url, exp)
    \/ \E url \in CreateUrls, exp \in ExpiryInputs : SvcCreate(p, alone, url, exp)

\* A redirect (GET /{code}, LinkService.resolve) arrives at handler p
ResolveRequest(p, alone) ==
  /\ CanStart(p, alone)
  /\
    \/ \E code \in AllCodes : HttpRedirect(p, alone, code)
    \/ \E code \in AllCodes : SvcResolve(p, alone, code)

\* A detail fetch, an update or a delete arrives at handler p
OtherRequest(p, alone) ==
  /\ CanStart(p, alone)
  /\
    \/ \E code \in AllCodes : HttpDetail(p, alone, code)
    \/ \E code \in AllCodes, in \in UpdateInputs :
          HttpUpdate(p, alone, code, in[1], in[2])
    \/ \E code \in AllCodes : HttpDelete(p, alone, code)
    \/ \E code \in AllCodes : SvcGet(p, alone, code)
    \/ \E code \in AllCodes, in \in UpdateInputs :
          SvcUpdate(p, alone, code, in[1], in[2])
    \/ \E code \in AllCodes : SvcDelete(p, alone, code)

\* A listing or a QR fetch arrives at handler p
ReadRequest(p, alone) ==
  /\ CanStart(p, alone)
  /\
    \/ HttpListAll(p, alone)
    \/ \E code \in AllCodes : HttpQrPng(p, alone, code)
    \/ SvcList(p, alone)

Request(p, alone) ==
    \/ CreateRequest(p, alone)
    \/ ResolveRequest(p, alone)
    \/ OtherRequest(p, alone)
    \/ ReadRequest(p, alone)

\* A request in flight takes its next step
Step(p) ==
  /\ NoneDone
  /\ proc[p].pc \notin {"idle", "done"}
  /\
    \/ GenTry(p)
    \/ HttpInsertLink(p)
    \/ HttpInsertSelect(p)
    \/ HttpUpdateSelect(p)
    \/ HttpIncrementClick(p)
    \/ HttpUpdateLastAccess(p)
    \/ SvcInsert(p)
    \/ SvcUpdateWrite(p)
    \/ SvcDeleteWrite(p)
    \/ SvcResolveWrite(p)

Next == Tick \/ \E p \in Procs : Request(p, FALSE) \/ Step(p) \/ Return(p)

Spec == Init /\ [][Next]_vars

\* Sequential clients: a request is sent when the previous one was answered
SeqNext == Tick \/ \E p \in Procs : Request(p, TRUE) \/ Step(p) \/ Return(p)

SeqSpec == Init /\ [][SeqNext]_vars

\* Concurrent creates and redirects, and no other operation on a link
ResolveNext ==
    Tick \/ \E p \in Procs :
        CreateRequest(p, FALSE) \/ ResolveRequest(p, FALSE) \/ Step(p) \/ Return(p)

ResolveSpec == Init /\ [][ResolveNext]_vars

\* ================================================================ claims
ResolveOps == {"http_redirect", "svc_resolve"}
CreateOps == {"http_create", "svc_create"}
UpdateOps == {"http_update", "svc_update"}

\* The resolution answered success (302, or resolve returned)
ResolvedOk(r) ==
    /\ r.pc = "done"
    /\ r.op \in ResolveOps
    /\ r.status \in {"redirect", "ok"}

\* No request is between two of its steps
Quiet == \A q \in Procs : proc[q].pc \in {"idle", "done"}

\* What a detail fetch of `code` answers on the rows `rows`
DetailOf(rows, code) == Shape(GetByCode(rows, code))

\* C1: with sequential clients, a successful resolution leaves the link's
\* click_count one above the value it read and last_access_at set; whenever
\* no request is in flight each link's click_count is the number of
\* successful resolutions of it, and a detail fetch shows that number and,
\* once it is positive, a last_access_at.
C1_SequentialRedirectsCount ==
    /\ \A p \in Procs :
         ResolvedOk(proc[p]) =>
            LET row == GetById(links, proc[p].rec.id) IN
            /\ row # NoRow
            /\ row.click_count = proc[p].rec.click_count + 1
            /\ row.last_access_at # NULL
    /\ Quiet =>
         \A r \in links :
            /\ r.click_count = hits[r.id]
            /\ hits[r.id] >= 1 => DetailOf(links, r.short_code).last_access_at # NULL
    /\ \A p \in Procs :
         (proc[p].pc = "done" /\ proc[p].op = "http_detail" /\ proc[p].status = "ok") =>
            /\ proc[p].ret.click_count = hits[proc[p].rec.id]
            /\ hits[proc[p].rec.id] >= 1 => proc[p].ret.last_access_at # NULL

\* C1 witness: the second of two sequential redirects of a link has answered
C1_Witness ==
    \E p \in Procs :
        /\ ResolvedOk(proc[p])
        /\ hits[proc[p].rec.id] = 2
        /\ GetById(links, proc[p].rec.id).click_count = 2

\* A resolution of `code` arrives at p in this step
ResolveArrives(p, code) ==
    /\ proc[p].pc = "idle"
    /\ proc'[p].op \in ResolveOps
    /\ proc'[p].code = code

\* C2: a resolution of a link whose expires_at is before the clock answers
\* expired in the step it arrives and leaves every row as it was.
C2_ExpiredLeavesRecord ==
    [][\A p \in Procs : \A r \in links :
          (ResolveArrives(p, r.short_code) /\ r.expires_at.kind = "iso"
             /\ r.expires_at.t < now)
          => (proc'[p].pc = "done" /\ proc'[p].status = "expired"
                /\ links' = links /\ hits' = hits)]_vars

\* C2 witness: a resolution of a link that expired before the clock's instant
\* was answered
C2_Witness ==
    \E p \in Procs :
        /\ proc[p].pc = "done"
        /\ proc[p].op \in ResolveOps
        /\ proc[p].rec.expires_at.kind = "iso"
        /\ proc[p].rec.expires_at.t < now
        /\ proc[p].status = "expired"

\* C3: a resolution of a link whose expires_at equals the clock answers
\* expired in the step it arrives and leaves every row as it was.
C3_BoundaryIsExpired ==
    [][\A p \in Procs : \A r \in links :
          (ResolveArrives(p, r.short_code) /\ r.expires_at.kind = "iso"
             /\ r.expires_at.t = now)
          => (proc'[p].pc = "done" /\ proc'[p].status = "expired"
                /\ links' = links)]_vars

\* C4: with only creates and redirects running, whenever no request is in
\* flight each link's click_count is the number of resolutions of it that
\* answered success: k concurrent resolutions count k.
C4_NoLostClick ==
    Quiet => \A r \in links : r.click_count = hits[r.id]

\* No two rows share a short_code
UniqueCodes(rows) ==
    \A r1 \in rows : \A r2 \in rows : r1.short_code = r2.short_code => r1 = r2

\* Handler p is about to INSERT its code
AtInsert(p) == proc[p].pc \in {"http_insert", "svc_insert"}

\* C5: no step leads to two rows with one short_code, and the INSERT of a
\* short_code that is present answers an error and leaves every row as it was.
C5_ShortCodeUnique ==
    [][/\ UniqueCodes(links')
       /\ \A p \in Procs :
            (AtInsert(p) /\ proc'[p] # proc[p] /\ ExistsCode(links, proc[p].code))
            => (proc'[p].pc = "done" /\ proc'[p].status = "error"
                  /\ links' = links)]_vars

\* C5 witness: a create whose one existence check passed lost the race to
\* another create of the same code: its INSERT was refused
C5_Witness ==
    \E p \in Procs :
        /\ proc[p].pc = "done"
        /\ proc[p].op \in CreateOps
        /\ proc[p].status = "error"
        /\ Len(proc[p].code) = LENGTH
        /\ proc[p].calls = 1
        /\ proc[p].collisions = 0
        /\ ExistsCode(links, proc[p].code)

\* C6: every turn of the generator asks the predicate once; the candidate it
\* returns (a code of LENGTH characters) was reported absent by that call,
\* and every call before it reported a collision, so the calls are the
\* collisions plus one; a turn that does not return its candidate saw it
\* reported present.
C6_ReturnsFirstFreeCandidate ==
    [][\A p \in Procs :
          (proc[p].pc = "gen" /\ proc'[p] # proc[p]) =>
             /\ proc'[p].calls = proc[p].calls + 1
             /\ proc[p].collisions = proc[p].calls
             /\ IF proc'[p].pc # "gen" /\ Len(proc'[p].code) = LENGTH
                THEN /\ proc'[p].code = proc'[p].cand
                     /\ ~ExistsCode(links, proc'[p].code)
                     /\ proc'[p].collisions = proc[p].collisions
                     /\ proc'[p].calls = proc'[p].collisions + 1
                ELSE /\ proc'[p].collisions = proc[p].collisions + 1
                     /\ ExistsCode(links, proc'[p].cand)]_vars

\* C6 witness: the predicate collided twice and was free on the third call,
\* and the generator returned after exactly 3 calls
C6_Witness ==
    \E p \in Procs :
        /\ AtInsert(p)
        /\ Len(proc[p].code) = LENGTH
        /\ proc[p].calls = 3
        /\ proc[p].collisions = 2

\* The value a field holds after an update: the stored one when the field
\* was omitted, else the one given (null clears expires_at)
FieldAfter(old, given) == IF given.kind = "nochange" THEN old ELSE given

\* The rows after the update `a` wrote the rows whose id is in `ids`
RowsAfterUpdate(rows, a, ids) ==
    {IF r.id \in ids
     THEN [r EXCEPT !.target_url = FieldAfter(@, a.tu),
                    !.expires_at = FieldAfter(@, a.ex)]
     ELSE r : r \in rows}

\* The UPDATE of handler p's update request is committed in this step
HttpUpdateWrites(p) ==
    /\ proc[p].pc = "idle"
    /\ proc'[p].op = "http_update"
    /\ proc'[p].pc = "http_update_select" \/ proc'[p].status = "ok"

SvcUpdateWrites(p) ==
    /\ proc[p].pc = "svc_update_write"
    /\ proc'[p].status = "ok"

\* C7: with sequential clients, an update that succeeds writes, in the row of
\* its code, each field that was given (a value, or null for expires_at) and
\* keeps each field that was omitted, and touches no other field or row; its
\* answer, and a detail fetch right after it, show the row so written: the
\* given target_url, the given expires_at, null after expires_at = null.
C7_UpdateFieldsIndependent ==
    [][\A p \in Procs :
          /\ HttpUpdateWrites(p) =>
                links' = RowsAfterUpdate(links, proc'[p],
                            {r.id : r \in {x \in links : x.short_code = proc'[p].code}})
          /\ SvcUpdateWrites(p) =>
                links' = RowsAfterUpdate(links, proc[p], {proc[p].rec.id})
          /\ (proc[p].pc # "done" /\ proc'[p].pc = "done"
                /\ proc'[p].op \in UpdateOps /\ proc'[p].status = "ok") =>
                LET a == proc'[p] IN
                /\ a.ret = DetailOf(links', a.code)
                /\ a.tu.kind # "nochange" => a.ret.target_url = a.tu
                /\ a.ex.kind = "null" => a.ret.expires_at = NULL
                /\ a.ex.kind = "iso" => a.ret.expires_at = Dt(a.ex.t)]_vars

\* C7 witness: an update of expires_at = null alone, on a link that had an
\* expiry, answered: expires_at is null and target_url is the one stored
C7_Witness ==
    \E p \in Procs :
        /\ proc[p].pc = "done"
        /\ proc[p].op = "svc_update"
        /\ proc[p].status = "ok"
        /\ proc[p].tu.kind = "nochange"
        /\ proc[p].ex = NULL
        /\ proc[p].rec.expires_at # NULL
        /\ proc[p].ret.expires_at = NULL
        /\ proc[p].ret.target_url = proc[p].rec.target_url
        /\ DetailOf(links, proc[p].code).expires_at = NULL

\* C8: no step of an update with both fields omitted changes a row, and when
\* it answers, the answer is what a detail fetch just before it answers.
C8_EmptyUpdateIsNoOp ==
    [][\A p \in Procs :
          (proc'[p] # proc[p] /\ proc'[p].op \in UpdateOps
             /\ proc'[p].tu.kind = "nochange" /\ proc'[p].ex.kind = "nochange") =>
             /\ links' = links
             /\ proc'[p].status = "ok" =>
                   proc'[p].ret = DetailOf(links, proc'[p].code)]_vars

\* C8 witness: an update with both fields omitted answered with the record of
\* a link that has an expiry and was clicked
C8_Witness ==
    \E p \in Procs :
        /\ proc[p].pc = "done"
        /\ proc[p].op \in UpdateOps
        /\ proc[p].tu.kind = "nochange"
        /\ proc[p].ex.kind = "nochange"
        /\ proc[p].status = "ok"
        /\ proc[p].ret.expires_at # NULL
        /\ proc[p].ret.click_count = 1

\* C9: every stored target_url is non-empty and begins with http:// or
\* https://.
C9_StoredTargetHasHttpScheme ==
    \A r \in links : ~Falsy(r.target_url) /\ StartsWithHttp(r.target_url)

\* C10: an update whose target_url is an explicit null is answered with a
\* validation error (not-found when the code is absent), and no write of it
\* is attempted against the store.
C10_NullTargetIsValidationError ==
    \A p \in Procs :
        (proc[p].op \in UpdateOps /\ proc[p].tu.kind = "none") =>
           /\ proc[p].pc \in {"idle", "done"}
           /\ proc[p].pc = "done" => proc[p].status \in {"validation", "not_found"}

\* The operations that only read
ReadOps == {"http_detail", "svc_get", "http_list", "svc_list", "http_qr"}

\* Handler p took a step
Moved(p) == proc'[p] # proc[p]

\* C11: with one operation after another, in every step: click_count is
\* never negative; a row that appears has click_count 0; the click_count of
\* a link that stays never decreases, and it changes only in the write of a
\* resolution that answers success; a step of a detail fetch, a listing, a
\* QR fetch or an update, and a resolution that answers not-found or
\* expired, leave every click_count as it was.
C11_ClickCountOnlyByResolution ==
    [][/\ \A r2 \in links' : r2.click_count >= 0
       /\ \A r2 \in links' :
            (\A r \in links : r.id # r2.id) => r2.click_count = 0
       /\ \A r \in links : \A r2 \in links' :
            r.id = r2.id =>
               /\ r2.click_count >= r.click_count
               /\ r2.click_count # r.click_count =>
                     \E p \in Procs :
                        /\ Moved(p)
                        /\ proc[p].op \in ResolveOps
                        /\ proc[p].pc \in {"http_increment", "svc_resolve_write"}
                        /\ proc[p].rec.id = r.id
                        /\ proc'[p].status \notin {"not_found", "expired", "error"}
       /\ \A p \in Procs :
            (Moved(p) /\ proc'[p].pc # "idle"
               /\ (\/ proc'[p].op \in ReadOps \cup UpdateOps
                   \/ (proc'[p].op \in ResolveOps
                         /\ proc'[p].status \in {"not_found", "expired"})))
            => \A r \in links : \A r2 \in links' :
                  r.id = r2.id => r2.click_count = r.click_count]_vars

\* C11 witness: an update that set a field of a link resolved once answered,
\* and the link's click_count is still 1
C11_Witness ==
    \E p \in Procs :
        /\ proc[p].pc = "done"
        /\ proc[p].op \in UpdateOps
        /\ proc[p].status = "ok"
        /\ proc[p].tu.kind = "str"
        /\ proc[p].ret.click_count = 1
        /\ GetByCode(links, proc[p].code).click_count = 1

DeleteOps == {"http_delete", "svc_delete"}

\* Handler p answers in this step
Answers(p) == proc[p].pc # "done" /\ proc'[p].pc = "done"

\* C12: with one operation after another, in every step: a delete that
\* answers success leaves no row with its code and every other row as it
\* was; a delete of an absent code answers not-found and changes no row; a
\* detail fetch and a redirect of an absent code answer not-found; and a
\* code that is absent becomes present only by the INSERT of a create.
C12_DeletedCodeIsGone ==
    [][/\ \A p \in Procs :
            (Answers(p) /\ proc'[p].op \in DeleteOps) =>
               LET code == proc'[p].code IN
               IF proc'[p].status \in {"no_content", "ok"}
               THEN /\ ExistsCode(links, code)
                    /\ ~ExistsCode(links', code)
                    /\ links' = {r \in links : r.short_code # code}
               ELSE /\ proc'[p].status = "not_found"
                    /\ ~ExistsCode(links, code)
                    /\ links' = links
       /\ \A p \in Procs :
            (Answers(p) /\ proc[p].pc = "idle"
               /\ proc'[p].op \in {"http_detail", "svc_get"} \cup ResolveOps
               /\ ~ExistsCode(links, proc'[p].code))
            => (proc'[p].status = "not_found" /\ links' = links)
       /\ \A c \in AllCodes :
            (~ExistsCode(links, c) /\ ExistsCode(links', c)) =>
               \E p \in Procs :
                  /\ AtInsert(p)
                  /\ Moved(p)
                  /\ proc[p].op \in CreateOps
                  /\ proc[p].code = c]_vars

\* C12 witness: the one link ever created was deleted, and a detail fetch or
\* a redirect of its code has answered not-found
C12_Witness ==
    \E p \in Procs :
        /\ proc[p].pc = "done"
        /\ proc[p].op \in {"http_detail", "http_redirect"}
        /\ proc[p].status = "not_found"
        /\ Len(proc[p].code) = LENGTH
        /\ next_id = 2
        /\ links = {}

\* The characters of `code` are of the alphabet
OverAlphabet(code) == \A i \in 1..Len(code) : code[i] \in ALPHABET

\* A create answered success with a record as C13 describes it, and a detail
\* fetch right after shows the same short_code and target_url
CreatedAsDescribed(a, rows) ==
    /\ a.status \in {"created", "ok"}
    /\ Len(a.ret.short_code) \in {LENGTH, LENGTH + 1}
    /\ OverAlphabet(a.ret.short_code)
    /\ Len(a.ret.short_code) = LENGTH + 1 => a.collisions = MaxTries
    /\ a.ret.click_count = 0
    /\ a.ret.last_access_at = NULL
    /\ a.ret.target_url = a.tu
    /\ ExistsCode(rows, a.ret.short_code)
    /\ DetailOf(rows, a.ret.short_code).short_code = a.ret.short_code
    /\ DetailOf(rows, a.ret.short_code).target_url = a.ret.target_url

\* The body of the create passes the validation of its surface: POST takes
\* at most 500 characters and an expires_at that is null or a timestamp
PassesValidation(a) ==
    a.op = "http_create" =>
       (a.tu.len <= MaxUrlLen /\ a.ex.kind \in {"null", "iso"})

\* C13 as stated: with one operation after another, every create of a
\* target_url that begins with http:// or https:// (in a body that passes
\* validation) answers success, with a short_code of 6 or 7 alphabet
\* characters (7 only after max_tries collisions), click_count 0 and
\* last_access_at null, and a detail fetch right after shows the same
\* short_code and target_url.
C13_CreateAlwaysSucceeds ==
    \A p \in Procs :
        (proc[p].pc = "done" /\ proc[p].op \in CreateOps
           /\ StartsWithHttp(proc[p].tu) /\ PassesValidation(proc[p]))
        => CreatedAsDescribed(proc[p], links)

\* C13 amended: with one operation after another, a create of a target_url
\* that begins with http:// or https:// and passes validation is not
\* answered a validation error; its INSERT is refused exactly when its code
\* is already stored, which is the case only for the unchecked 7-character
\* fallback: the create then answers the store's error and no row changes;
\* otherwise it answers success with the record C13 describes.
C13_CreateSucceedsUnlessFallbackStored ==
    [][\A p \in Procs :
          (Moved(p) /\ proc'[p].op \in CreateOps /\ StartsWithHttp(proc'[p].tu)
             /\ PassesValidation(proc'[p])) =>
             /\ proc'[p].status # "validation"
             /\ AtInsert(p) =>
                   IF ExistsCode(links, proc[p].code)
                   THEN /\ Len(proc[p].code) = LENGTH + 1
                        /\ proc[p].collisions = MaxTries
                        /\ proc'[p].pc = "done"
                        /\ proc'[p].status = "error"
                        /\ links' = links
                   ELSE /\ proc'[p].status # "error"
                        /\ ExistsCode(links', proc[p].code)
             /\ Answers(p) =>
                   \/ CreatedAsDescribed(proc'[p], links')
                   \/ (AtInsert(p) /\ ExistsCode(links, proc[p].code))]_vars

\* C13 witness: a create of an http(s) target_url answered success with the
\* 7-character fallback code after max_tries collisions
C13_Witness ==
    \E p \in Procs :
        /\ proc[p].pc = "done"
        /\ proc[p].op \in CreateOps
        /\ StartsWithHttp(proc[p].tu)
        /\ CreatedAsDescribed(proc[p], links)
        /\ Len(proc[p].ret.short_code) = LENGTH + 1

\* C14: a resolution of a link whose stored expires_at is present and does
\* not parse as a timestamp answers expired in the step it arrives, and
\* leaves every row (click_count and last_access_at with it) as it was.
C14_UnparsableExpiryIsExpired ==
    [][\A p \in Procs : \A r \in links :
          (ResolveArrives(p, r.short_code) /\ r.expires_at.kind = "bad")
          => (proc'[p].pc = "done" /\ proc'[p].status = "expired"
                /\ links' = links)]_vars

\* C15: under every interleaving, no stored link has click_count >= 1 while
\* its last_access_at is null, and no detail fetch shows such a record: the
\* count and the access time of a resolution are written together.
C15_ClickAndAccessTogether ==
    /\ \A r \in links : r.click_count >= 1 => r.last_access_at # NULL
    /\ \A p \in Procs :
         (proc[p].pc = "done" /\ proc[p].op \in {"http_detail", "svc_get"}
            /\ proc[p].status = "ok" /\ proc[p].ret.click_count >= 1)
         => proc[p].ret.last_access_at # NULL

\* C16: under every interleaving, an update (of a body that passes
\* validation) that answers while its code is not in the store, whether the
\* code never was there or a concurrent delete removed it after the
\* update's lookup, answers not-found, changes no row and leaves the code
\* absent.
C16_UpdateOfAbsentIsNotFound ==
    [][\A p \in Procs :
          (Answers(p) /\ proc'[p].op \in UpdateOps
             /\ proc'[p].status # "validation"
             /\ ~ExistsCode(links, proc'[p].code))
          => /\ proc'[p].status = "not_found"
             /\ links' = links
             /\ ~ExistsCode(links', proc'[p].code)]_vars

\* C17: the generator is left after at most max_tries calls of the
\* predicate: a turn starts with fewer than max_tries calls made and makes
\* one; when it stays in the loop fewer than max_tries are made; when it
\* returns after max_tries collisions the code has 7 characters and the
\* predicate was called max_tries times, so never for that code; otherwise
\* the code has 6 characters.
C17_GeneratorIsBounded ==
    [][\A p \in Procs :
          (proc[p].pc = "gen" /\ Moved(p)) =>
             /\ proc[p].calls < MaxTries
             /\ proc'[p].calls = proc[p].calls + 1
             /\ proc'[p].pc = "gen" => proc'[p].calls < MaxTries
             /\ proc'[p].pc # "gen" =>
                   IF proc'[p].collisions = MaxTries
                   THEN /\ Len(proc'[p].code) = LENGTH + 1
                        /\ proc'[p].calls = MaxTries
                   ELSE /\ Len(proc'[p].code) = LENGTH
                        /\ proc'[p].calls <= MaxTries]_vars

\* C17 witness: all max_tries candidates collided and the generator returned
\* a code of 7 characters after max_tries calls
C17_Witness ==
    \E p \in Procs :
        /\ AtInsert(p)
        /\ proc[p].collisions = MaxTries
        /\ proc[p].calls = MaxTries
        /\ Len(proc[p].code) = LENGTH + 1

ListOps == {"http_list", "svc_list"}

\* C18: with one operation after another, a listing holds every stored link
\* exactly once, and of two links the one created later (the one with the
\* larger id) comes first, also when both have the same created_at.
C18_ListNewestFirst ==
    \A p \in Procs :
        (proc[p].pc = "done" /\ proc[p].op \in ListOps) =>
           LET s == proc[p].listed IN
           /\ Len(s) = Cardinality(links)
           /\ \A r \in links : \E i \in DOMAIN s : s[i] = r
           /\ \A i, j \in DOMAIN s : i < j => s[i].id > s[j].id

\* C19: with one operation after another, what a resolution answers depends
\* on the expires_at stored when it arrives and on the clock then, whatever
\* earlier resolutions of the link answered: with expires_at before the
\* clock it answers expired and writes nothing, also for a link resolved
\* with success before; with expires_at null or after the clock it goes on
\* to its write and answers success with the click counted, also for a link
\* that was expired before (an update has cleared or moved its expires_at
\* since).
C19_ExpiryEvaluatedAtResolution ==
    [][\A p \in Procs :
          /\ \A r \in links :
                ResolveArrives(p, r.short_code) =>
                   /\ (r.expires_at.kind = "iso" /\ r.expires_at.t < now) =>
                         /\ proc'[p].pc = "done"
                         /\ proc'[p].status = "expired"
                         /\ links' = links
                   /\ (\/ r.expires_at.kind = "null"
                       \/ (r.expires_at.kind = "iso" /\ r.expires_at.t > now)) =>
                         proc'[p].pc \in {"http_increment", "svc_resolve_write"}
          /\ (Answers(p) /\ proc[p].pc \in {"http_touch", "svc_resolve_write"}) =>
                /\ ResolvedOk(proc'[p])
                /\ GetById(links', proc[p].rec.id).click_count
                      = proc[p].rec.click_count + 1]_vars

\* C19 witness: a link that was expired until an update cleared its
\* expires_at or moved it after the clock was resolved with success, and
\* the click is counted
C19_Witness ==
    \E p \in Procs :
        /\ ResolvedOk(proc[p])
        /\ proc[p].rec.id \in revived
        /\ \/ proc[p].rec.expires_at.kind = "null"
           \/ (proc[p].rec.expires_at.kind = "iso" /\ proc[p].rec.expires_at.t > now)
        /\ GetById(links, proc[p].rec.id).click_count = 1

\* C20: under every interleaving, in every step: a row that stays keeps its
\* id, short_code and created_at (a row after the step that has the id or
\* the short_code of a row before it has all three of that row); a step of
\* an update also keeps every click_count and last_access_at, and a step of
\* a resolution also keeps every target_url and expires_at.
C20_IdentityFieldsImmutable ==
    [][/\ \A r \in links : \A r2 \in links' :
            (r2.id = r.id \/ r2.short_code = r.short_code) =>
               /\ r2.id = r.id
               /\ r2.short_code = r.short_code
               /\ r2.created_at = r.created_at
       /\ \A p \in Procs : \A r \in links : \A r2 \in links' :
            (Moved(p) /\ r2.id = r.id) =>
               /\ proc'[p].op \in UpdateOps =>
                     /\ r2.click_count = r.click_count
                     /\ r2.last_access_at = r.last_access_at
               /\ proc'[p].op \in ResolveOps =>
                     /\ r2.target_url = r.target_url
                     /\ r2.expires_at = r.expires_at]_vars

\* C20 witness: a link whose target_url and expires_at an update has set was
\* resolved with success at a later instant than its creation, and its row
\* still has the created_at and short_code it was read with
C20_Witness ==
    \E p \in Procs :
        /\ ResolvedOk(proc[p])
        /\ proc[p].rec.target_url = HttpB
        /\ proc[p].rec.expires_at.kind = "iso"
        /\ proc[p].rec.created_at.t < now
        /\ GetById(links, proc[p].rec.id).created_at = proc[p].rec.created_at
        /\ GetById(links, proc[p].rec.id).short_code = proc[p].code
        /\ GetById(links, proc[p].rec.id).last_access_at = IsoText(now)

====
